---- MODULE Spec2Model ----
(***************************************************************************)
(* A model of mbox-indexer's src/lib.rs: MessageBoundaryReader (the        *)
(* buffered reader that stops at every "\nFrom " and removes one '>' of a  *)
(* ">From " line) and MboxReader (the per-message sequencer above it).     *)
(*                                                                         *)
(* Offsets are 0-based as in the Rust code; a TLA+ sequence is 1-based, so *)
(* buffer[i] of the code is s.buffer[i + 1] here and the slice             *)
(* buffer[a..b] is Slice(s.buffer, a, b).                                  *)
(***************************************************************************)
EXTENDS Integers, Sequences, FiniteSets, TLC

(***************************************************************************)
(* Bounds of the model.                                                    *)
(***************************************************************************)
\* Length of the reader's buffer (DEFAULT_CAPACITY, 8192 in the code, scaled down).
Capacity == 9
\* An input is a run of text bytes followed by at most MaxTokens tokens.
MaxTokens == 3
\* Number of source reads that may fail in one behaviour of ErrSpec.
MaxFaults == 1
\* The inputs of MboxLive have at most MaxLiveTokens tokens.
MaxLiveTokens == 2

(***************************************************************************)
(* Bytes.                                                                  *)
(***************************************************************************)
NL == 10
GT == 62
TXT == 116
MAGIC_WORD == <<10, 70, 114, 111, 109, 32>>
FROM_SP == <<70, 114, 111, 109, 32>>
NL_GT == <<10, 62>>

Min(a, b) == IF a < b THEN a ELSE b

\* buffer[a..b]
Slice(seq, a, b) == SubSeq(seq, a + 1, b)

\* Option<usize>::None
None == -1

\* The element of a set of one element. The({e : r \in {v}}) is e with r
\* standing for v: a binding `let r = v` whose value is computed once; an
\* operator f(s0) == The({e : s \in {s0}}) takes its argument by value.
The(S) == CHOOSE v \in S : TRUE

(***************************************************************************)
(* The state.                                                              *)
(***************************************************************************)
VARIABLES
    input,    \* the bytes of the underlying source (the whole stream)
    mbr,      \* the MessageBoundaryReader (MboxReader.inner)
    first,    \* MboxReader.first
    entry,    \* what the last MboxReader::next returned: "init", "some", "none", "err"
    handles,  \* observer: number of MboxEntry values MboxReader::next has returned
    cur,      \* observer: input positions of the bytes the caller took in this message
    skipped,  \* observer: skip_message discarded bytes of this message
    done,     \* observer: input positions of the bytes the caller took from the
              \* earlier MboxEntry values (empty once lost)
    lost,     \* observer: MboxReader::next discarded bytes of an earlier message
    epoch,    \* observer: number of reset_eom calls so far
    reads,    \* observer: 0 when cur is empty, 1 when one read call copied all of
              \* cur, 2 otherwise
    faults    \* observer: number of failed source reads so far

vars == <<input, mbr, first, entry, handles, cur, skipped, done, lost, epoch, reads, faults>>

(***************************************************************************)
(* memchr::memchr and memchr::memmem::find: the index of the first         *)
(* occurrence in the haystack, or None.                                    *)
(***************************************************************************)
memchr(b, hay) ==
    LET hits == {i \in 1..Len(hay) : hay[i] = b}
    IN IF hits = {} THEN None
       ELSE (CHOOSE i \in hits : \A j \in hits : i <= j) - 1

memmem_find(hay, needle) ==
    LET n == Len(needle)
        hits == {i \in 1..(Len(hay) - n + 1) : SubSeq(hay, i, i + n - 1) = needle}
    IN IF hits = {} THEN None
       ELSE (CHOOSE i \in hits : \A j \in hits : i <= j) - 1

(***************************************************************************)
(* The underlying source R: a byte stream over `input` at position         *)
(* inner.pos. inner.fault is the stream position at which the next read    *)
(* fails once (None: no read fails); a read before that position is cut    *)
(* short at it, as Read::read may return fewer bytes than asked.           *)
(***************************************************************************)
inner_read(inner, space) ==
    IF inner.fault = inner.pos
    THEN [inner |-> [inner EXCEPT !.fault = None], err |-> TRUE, n |-> 0]
    ELSE LET left == Len(input) - inner.pos
             upto == IF inner.fault = None THEN left ELSE inner.fault - inner.pos
             n == Min(space, Min(left, upto))
         IN [inner |-> [inner EXCEPT !.pos = @ + n], err |-> FALSE, n |-> n]

(***************************************************************************)
(* MessageBoundaryReader::new                                              *)
(* origin and removed are observers: origin[i + 1] is the position in the  *)
(* input (1-based, 0: none) of the byte held in buffer[i]; removed is the  *)
(* set of input positions of the bytes fill_buf erased; early_read tells   *)
(* that a refill, which reads the source, began with the ready window not  *)
(* empty, a boundary pending or scanned bytes not consumed.                *)
(***************************************************************************)
new ==
    [inner |-> [pos |-> 0, fault |-> None],
     buffer |-> [i \in 1..Capacity |-> 0],
     origin |-> [i \in 1..Capacity |-> 0],
     buffer_end |-> 0,
     ready_start |-> 0,
     ready_end |-> 0,
     held_back |-> 0,
     next_message_start |-> None,
     removed |-> {},
     early_read |-> FALSE,
     panic |-> FALSE]

\* A variant of eom for the check of C2: it compares with ready_end, so it holds
\* as soon as the magic word is found, before its newline is consumed.
eom_at_ready_end(s) ==
    IF s.next_message_start = None THEN FALSE
    ELSE s.next_message_start = s.ready_end

\* MessageBoundaryReader::eom
eom(s) ==
    IF s.next_message_start = None THEN FALSE
    ELSE s.next_message_start = s.ready_start

Ok(s) == [s |-> s, err |-> FALSE]
Err(s) == [s |-> s, err |-> TRUE]
Panic(s) == [s |-> [s EXCEPT !.panic = TRUE], err |-> FALSE]

\* Vec::copy_within(src_lo..src_hi, 0)
copy_within(seq, lo, hi) ==
    [i \in 1..Len(seq) |-> IF i <= hi - lo THEN seq[lo + i] ELSE seq[i]]

\* Vec::remove(idx) followed by Vec::push(fill)
remove_push(seq, idx, fill) ==
    [i \in 1..Len(seq) |->
        IF i <= idx THEN seq[i]
        ELSE IF i < Len(seq) THEN seq[i + 1]
        ELSE fill]

(***************************************************************************)
(* fill_buf, lines 166-173: read the source until the buffer is full or a  *)
(* read returns 0; a failed read returns the error at once (`?`).          *)
(***************************************************************************)
RECURSIVE read_loop(_)
read_loop(s0) ==
    The({IF s.buffer_end >= Len(s.buffer) THEN Ok(s)
        ELSE LET r == inner_read(s.inner, Len(s.buffer) - s.buffer_end)
             IN IF r.err THEN Err([s EXCEPT !.inner = r.inner])
                ELSE LET e == s.buffer_end
                         s2 == [s EXCEPT
                                  !.inner = r.inner,
                                  !.buffer = [i \in 1..Len(s.buffer) |->
                                      IF i > e /\ i <= e + r.n
                                      THEN input[s.inner.pos + (i - e)] ELSE s.buffer[i]],
                                  !.origin = [i \in 1..Len(s.buffer) |->
                                      IF i > e /\ i <= e + r.n
                                      THEN s.inner.pos + (i - e) ELSE s.origin[i]],
                                  !.buffer_end = e + r.n,
                                  !.held_back = e + r.n]
                     IN IF r.n = 0 THEN Ok(s2) ELSE read_loop(s2)
        : s \in {s0}})

\* A variant of hold_back for the check of C3: it looks for a newline in the last
\* four bytes only.
hold_back_last4(s0) ==
    The({IF s.buffer_end >= Len(MAGIC_WORD)
        THEN LET last4 == Slice(s.buffer, s.buffer_end - 4, s.buffer_end)
                 newline_idx == memchr(NL, last4)
             IN IF newline_idx # None
                THEN [s EXCEPT !.held_back = s.buffer_end - 4 + newline_idx]
                ELSE s
        ELSE s
        : s \in {s0}})

\* A variant of hold_back for the check of C17: it holds back from the last
\* newline among the last five bytes, not from the first.
hold_back_last_newline(s0) ==
    The({IF s.buffer_end >= Len(MAGIC_WORD)
        THEN LET last5 == Slice(s.buffer, s.buffer_end - 5, s.buffer_end)
                 hits == {i \in 1..Len(last5) : last5[i] = NL}
             IN IF hits # {}
                THEN [s EXCEPT !.held_back = s.buffer_end - 5 +
                         (CHOOSE i \in hits : \A j \in hits : j <= i) - 1]
                ELSE s
        ELSE s
        : s \in {s0}})

\* A variant of hold_back for the check of C11: it holds bytes back as soon as
\* five bytes are in the buffer.
hold_back_from5(s0) ==
    The({IF s.buffer_end >= Len(MAGIC_WORD) - 1
        THEN LET last5 == Slice(s.buffer, s.buffer_end - 5, s.buffer_end)
                 newline_idx == memchr(NL, last5)
             IN IF newline_idx # None
                THEN [s EXCEPT !.held_back = s.buffer_end - 5 + newline_idx]
                ELSE s
        ELSE s
        : s \in {s0}})

(***************************************************************************)
(* fill_buf, lines 175-183: with six bytes or more in the buffer, hold     *)
(* back everything from the first newline among the last five.             *)
(***************************************************************************)
hold_back(s0) ==
    The({IF s.buffer_end >= Len(MAGIC_WORD)
        THEN LET last5 == Slice(s.buffer, s.buffer_end - 5, s.buffer_end)
                 newline_idx == memchr(NL, last5)
             IN IF newline_idx # None
                THEN [s EXCEPT !.held_back = s.buffer_end - 5 + newline_idx]
                ELSE s
        ELSE s
        : s \in {s0}})

\* The ready window is empty, no boundary is pending and every scanned byte has
\* been consumed.
AllConsumed(s) ==
    /\ s.ready_start = s.ready_end
    /\ s.ready_end = s.held_back
    /\ s.next_message_start = None

\* A variant of refill for the check of C8: the held back bytes are not copied to
\* the beginning of the buffer.
refill_no_copy(s0) ==
    The({LET num_held_back == s.buffer_end - s.held_back
            s1 == [s EXCEPT
                     !.ready_start = 0,
                     !.ready_end = 0,
                     !.buffer_end = num_held_back,
                     !.held_back = num_held_back]
        IN The({IF r.err THEN r ELSE Ok(hold_back(r.s)) : r \in {read_loop(s1)}})
        : s \in {s0}})

(***************************************************************************)
(* fill_buf, lines 153-184: restart at the beginning of the buffer,        *)
(* carrying the held back bytes over.                                      *)
(***************************************************************************)
refill(s0) ==
    The({LET num_held_back == s.buffer_end - s.held_back
            s1 == [s EXCEPT
                     !.early_read = @ \/ ~AllConsumed(s),
                     !.buffer = IF num_held_back > 0
                                THEN copy_within(s.buffer, s.held_back, s.buffer_end)
                                ELSE @,
                     !.origin = IF num_held_back > 0
                                THEN copy_within(s.origin, s.held_back, s.buffer_end)
                                ELSE @,
                     !.ready_start = 0,
                     !.ready_end = 0,
                     !.buffer_end = num_held_back,
                     !.held_back = num_held_back]
        IN The({IF r.err THEN r ELSE Ok(hold_back(r.s)) : r \in {read_loop(s1)}})
        : s \in {s0}})

\* A variant of find_boundary for the check of C1: the ready window ends one byte
\* after the newline of the magic word.
find_boundary_past_newline(s0) ==
    The({LET newline_idx == memmem_find(Slice(s.buffer, s.ready_start, s.held_back), MAGIC_WORD)
        IN IF newline_idx # None
           THEN LET absolute_idx == s.ready_start + newline_idx + 2
                IN [s EXCEPT !.ready_end = absolute_idx,
                             !.next_message_start = absolute_idx]
           ELSE [s EXCEPT !.ready_end = s.held_back]
        : s \in {s0}})

(***************************************************************************)
(* fill_buf, lines 193-202: the ready window ends after the newline of the *)
(* first magic word in buffer[ready_start..held_back], or at held_back.    *)
(***************************************************************************)
find_boundary(s0) ==
    The({LET newline_idx == memmem_find(Slice(s.buffer, s.ready_start, s.held_back), MAGIC_WORD)
        IN IF newline_idx # None
           THEN LET absolute_idx == s.ready_start + newline_idx + 1
                IN [s EXCEPT !.ready_end = absolute_idx,
                             !.next_message_start = absolute_idx]
           ELSE [s EXCEPT !.ready_end = s.held_back]
        : s \in {s0}})

\* A variant of dequote for the check of C16: it does not look at the bytes
\* between the newline and "From ".
dequote_unchecked(s0) ==
    The({LET newline_off == memmem_find(Slice(s.buffer, s.ready_start, s.ready_end), NL_GT)
        IN IF newline_off = None THEN s
           ELSE
            LET first_lt_idx == s.ready_start + newline_off + 1
                from_off == memmem_find(Slice(s.buffer, first_lt_idx, s.ready_end), FROM_SP)
            IN IF from_off = None THEN s
               ELSE [s EXCEPT
                       !.removed = @ \cup {s.origin[first_lt_idx + 1]},
                       !.buffer = remove_push(s.buffer, first_lt_idx, 0),
                       !.origin = remove_push(s.origin, first_lt_idx, 0),
                       !.ready_end = @ - 1,
                       !.held_back = @ - 1,
                       !.buffer_end = @ - 1,
                       !.next_message_start = IF @ = None THEN None ELSE @ - 1]
        : s \in {s0}})

\* A variant of dequote for the check of C15: held_back is not moved with the
\* erased byte.
dequote_keeps_held_back(s0) ==
    The({LET newline_off == memmem_find(Slice(s.buffer, s.ready_start, s.ready_end), NL_GT)
        IN IF newline_off = None THEN s
           ELSE
            LET first_lt_idx == s.ready_start + newline_off + 1
                from_off == memmem_find(Slice(s.buffer, first_lt_idx, s.ready_end), FROM_SP)
            IN IF from_off = None THEN s
               ELSE
                LET f_idx == first_lt_idx + from_off
                IN IF \A i \in (first_lt_idx + 1)..f_idx : s.buffer[i] = GT
                   THEN [s EXCEPT
                           !.removed = @ \cup {s.origin[first_lt_idx + 1]},
                           !.buffer = remove_push(s.buffer, first_lt_idx, 0),
                           !.origin = remove_push(s.origin, first_lt_idx, 0),
                           !.ready_end = @ - 1,
                           !.buffer_end = @ - 1,
                           !.next_message_start = IF @ = None THEN None ELSE @ - 1]
                   ELSE s
        : s \in {s0}})

(***************************************************************************)
(* fill_buf, lines 204-219: search the ready window for `^>+From ` and     *)
(* erase one '>'.                                                          *)
(***************************************************************************)
dequote(s0) ==
    The({LET newline_off == memmem_find(Slice(s.buffer, s.ready_start, s.ready_end), NL_GT)
        IN IF newline_off = None THEN s
           ELSE
            LET first_lt_idx == s.ready_start + newline_off + 1
                from_off == memmem_find(Slice(s.buffer, first_lt_idx, s.ready_end), FROM_SP)
            IN IF from_off = None THEN s
               ELSE
                LET f_idx == first_lt_idx + from_off
                IN IF \A i \in (first_lt_idx + 1)..f_idx : s.buffer[i] = GT
                   THEN [s EXCEPT
                           !.removed = @ \cup {s.origin[first_lt_idx + 1]},
                           !.buffer = remove_push(s.buffer, first_lt_idx, 0),
                           !.origin = remove_push(s.origin, first_lt_idx, 0),
                           !.ready_end = @ - 1,
                           !.held_back = @ - 1,
                           !.buffer_end = @ - 1,
                           !.next_message_start = IF @ = None THEN None ELSE @ - 1]
                   ELSE s
        : s \in {s0}})

\* A variant of fill_buf for the check of C18: it refills whenever the ready
\* window is empty and no boundary is pending.
fill_buf_always_refills(s0) ==
    The({IF s.ready_start # s.ready_end THEN Ok(s)
        ELSE IF s.next_message_start # None
        THEN (IF eom(s) THEN Ok(s) ELSE Panic(s))
        ELSE The({IF r.err THEN r
                  ELSE IF r.s.ready_start # r.s.ready_end THEN Panic(r.s)
                  ELSE Ok(dequote(find_boundary(r.s)))
                  : r \in {refill(s)}})
        : s \in {s0}})

\* A variant of fill_buf for the check of C12: a pending boundary does not stop
\* it, so it goes on to the bytes after the boundary.
fill_buf_past_boundary(s0) ==
    The({IF s.ready_start # s.ready_end THEN Ok(s)
        ELSE The({IF r.err THEN r
                  ELSE IF r.s.ready_start # r.s.ready_end THEN Panic(r.s)
                  ELSE Ok(dequote(find_boundary(r.s)))
                  : r \in {IF s.ready_end = s.held_back THEN refill(s) ELSE Ok(s)}})
        : s \in {s0}})

(***************************************************************************)
(* BufRead::fill_buf for MessageBoundaryReader. The slice it returns is    *)
(* buffer[ready_start..ready_end] of the resulting state.                  *)
(***************************************************************************)
fill_buf(s0) ==
    The({IF s.ready_start # s.ready_end THEN Ok(s)
        ELSE IF s.next_message_start # None
        THEN (IF eom(s) THEN Ok(s) ELSE Panic(s))
        ELSE The({IF r.err THEN r
                  ELSE IF r.s.ready_start # r.s.ready_end THEN Panic(r.s)
                  ELSE Ok(dequote(find_boundary(r.s)))
                  : r \in {IF s.ready_end = s.held_back THEN refill(s) ELSE Ok(s)}})
        : s \in {s0}})

\* The slice a successful fill_buf returned.
available(s) == Slice(s.buffer, s.ready_start, s.ready_end)
available_origin(s) == Slice(s.origin, s.ready_start, s.ready_end)

\* A variant of consume for the check of C20: it sets ready_start to the amount.
consume_assigns(s, amt) ==
    IF amt <= s.ready_end - s.ready_start
    THEN [s EXCEPT !.ready_start = amt]
    ELSE [s EXCEPT !.panic = TRUE]

\* BufRead::consume
consume(s, amt) ==
    IF amt <= s.ready_end - s.ready_start
    THEN [s EXCEPT !.ready_start = @ + amt]
    ELSE [s EXCEPT !.panic = TRUE]

\* A variant of read for the check of C10: it consumes all the available bytes,
\* not only the copied ones.
read_consume_available(s, buf_len) ==
    The({IF r.err \/ r.s.panic
         THEN [s |-> r.s, err |-> r.err, n |-> 0, out |-> <<>>]
         ELSE LET copied == Min(Len(available(r.s)), buf_len)
              IN [s |-> consume(r.s, Len(available(r.s))), err |-> FALSE, n |-> copied,
                  out |-> SubSeq(available_origin(r.s), 1, copied)]
         : r \in {fill_buf(s)}})

(***************************************************************************)
(* Read::read into a destination of buf_len bytes: n is the number of      *)
(* bytes copied and out the positions in the input of the copied bytes.    *)
(***************************************************************************)
read(s, buf_len) ==
    The({IF r.err \/ r.s.panic
         THEN [s |-> r.s, err |-> r.err, n |-> 0, out |-> <<>>]
         ELSE LET copied == Min(Len(available(r.s)), buf_len)
              IN [s |-> consume(r.s, copied), err |-> FALSE, n |-> copied,
                  out |-> SubSeq(available_origin(r.s), 1, copied)]
         : r \in {fill_buf(s)}})

\* A variant of eof for the check of C13: it looks at the ready window without
\* filling it.
eof_without_fill(s) ==
    [s |-> s, err |-> FALSE, val |-> ~eom(s) /\ s.ready_start = s.ready_end]

\* MessageBoundaryReader::eof
eof(s) ==
    IF eom(s) THEN [s |-> s, err |-> FALSE, val |-> FALSE]
    ELSE The({[s |-> r.s, err |-> r.err,
               val |-> ~r.err /\ ~r.s.panic /\ Len(available(r.s)) = 0]
              : r \in {fill_buf(s)}})

\* MessageBoundaryReader::reset_eom
reset_eom(s) ==
    IF eom(s) THEN [s EXCEPT !.next_message_start = None]
    ELSE [s EXCEPT !.panic = TRUE]

\* A variant of skip_message for the check of C14: at a boundary it goes on with
\* the next message, to the end of the source.
RECURSIVE skip_message_to_end(_)
skip_message_to_end(s) ==
    The({IF r.err \/ r.s.panic THEN [s |-> r.s, err |-> r.err, n |-> 0]
         ELSE LET ready == Len(available(r.s))
              IN IF ready > 0 THEN skip_message_to_end(consume(r.s, ready))
                 ELSE IF eom(r.s) THEN skip_message_to_end(reset_eom(r.s))
                 ELSE [s |-> r.s, err |-> FALSE, n |-> 0]
         : r \in {fill_buf(s)}})

\* A variant of skip_message for the check of C9: it stops after the first
\* consume.
skip_message_once(s) ==
    The({IF r.err \/ r.s.panic THEN [s |-> r.s, err |-> r.err, n |-> 0]
         ELSE [s |-> consume(r.s, Len(available(r.s))), err |-> FALSE,
               n |-> Len(available(r.s))]
         : r \in {fill_buf(s)}})

\* MessageBoundaryReader::skip_message; n is the number of bytes it discarded.
RECURSIVE skip_loop(_, _)
skip_loop(s, n) ==
    The({IF r.err \/ r.s.panic THEN [s |-> r.s, err |-> r.err, n |-> n]
         ELSE LET ready == Len(available(r.s))
              IN IF ready = 0 THEN [s |-> r.s, err |-> FALSE, n |-> n]
                 ELSE skip_loop(consume(r.s, ready), n + ready)
         : r \in {fill_buf(s)}})

skip_message(s) == skip_loop(s, 0)


(***************************************************************************)
(* MboxReader::next. ret is "some" (a MboxEntry), "none" or "err"; n is    *)
(* the number of bytes skip_message discarded; began tells that reset_eom  *)
(* was called, so that the entry is one of a new message.                  *)
(***************************************************************************)
NextRet(s, f, ret, n, began) ==
    [s |-> s, first |-> f, ret |-> ret, n |-> n, began |-> began]

next_after_skip(s, n) ==
    IF ~eom(s) THEN NextRet([s EXCEPT !.panic = TRUE], FALSE, "err", n, FALSE)
    ELSE NextRet(reset_eom(s), FALSE, "some", n, TRUE)

\* MboxReader::next, lines 35-40: skip over the rest of the message, then ask
\* for the end of the stream again.
next_eof_after_skip(sk, f) ==
    The({IF e2.err \/ e2.s.panic THEN NextRet(e2.s, f, "err", sk.n, FALSE)
         ELSE IF e2.val THEN NextRet(e2.s, f, "none", sk.n, FALSE)
         ELSE next_after_skip(e2.s, sk.n)
         : e2 \in {eof(sk.s)}})

next_skip(s, f) ==
    The({IF sk.err \/ sk.s.panic THEN NextRet(sk.s, f, "err", sk.n, FALSE)
         ELSE next_eof_after_skip(sk, f)
         : sk \in {skip_message(s)}})

\* A variant of next for the check of C19: it does not skip over the rest of
\* the message.
next_without_skip(s, f) ==
    The({IF e1.err \/ e1.s.panic THEN NextRet(e1.s, f, "err", 0, FALSE)
         ELSE IF e1.val THEN NextRet(e1.s, f, "none", 0, FALSE)
         ELSE IF f THEN NextRet(e1.s, FALSE, "some", 0, FALSE)
         ELSE next_after_skip(e1.s, 0)
         : e1 \in {eof(s)}})

\* A variant of next for the check of C6: the first call is not told apart, so
\* it skips to the next message like every other call.
next_without_first(s, f) ==
    The({IF e1.err \/ e1.s.panic THEN NextRet(e1.s, f, "err", 0, FALSE)
         ELSE IF e1.val THEN NextRet(e1.s, f, "none", 0, FALSE)
         ELSE IF ~eom(e1.s)
         THEN next_skip(e1.s, f)
         ELSE next_after_skip(e1.s, 0)
         : e1 \in {eof(s)}})

next(s, f) ==
    The({IF e1.err \/ e1.s.panic THEN NextRet(e1.s, f, "err", 0, FALSE)
         ELSE IF e1.val THEN NextRet(e1.s, f, "none", 0, FALSE)
         ELSE IF f THEN NextRet(e1.s, FALSE, "some", 0, FALSE)
         ELSE IF ~eom(e1.s)
         THEN next_skip(e1.s, f)
         ELSE next_after_skip(e1.s, 0)
         : e1 \in {eof(s)}})

(***************************************************************************)
(* The inputs: a run of text bytes that is empty or ends 0..6 bytes before *)
(* the end of the first full buffer (the offsets of test::page_boundary),  *)
(* then up to MaxTokens tokens, each a newline, a '>' (a byte of text when *)
(* it does not follow a newline), "From ", "\n>" or the magic word.        *)
(***************************************************************************)
Tokens == {<<NL>>, <<GT>>, FROM_SP, NL_GT, MAGIC_WORD}

RECURSIVE Bodies(_)
Bodies(n) ==
    IF n = 0 THEN {<<>>}
    ELSE LET shorter == Bodies(n - 1)
         IN shorter \cup {b \o t : b \in shorter, t \in Tokens}

Pad(k) == [i \in 1..k |-> TXT]

Pads == {0} \cup {Capacity - offset : offset \in 0..Len(MAGIC_WORD)}

Inputs == {Pad(k) \o b : k \in Pads, b \in Bodies(MaxTokens)}

\* A destination larger than every input.
BigRead == Capacity + 6 * MaxTokens + 1

ReadSizes == {1, 2, BigRead}

\* The state after MboxReader::new on an input of the set inputs.
InitOn(inputs) ==
    /\ input \in inputs
    /\ mbr = new
    /\ first = TRUE
    /\ entry = "init"
    /\ handles = 0
    /\ cur = <<>>
    /\ skipped = FALSE
    /\ done = <<>>
    /\ lost = FALSE
    /\ epoch = 0
    /\ reads = 0
    /\ faults = 0

Init == InitOn(Inputs)

(***************************************************************************)
(* The operations of MessageBoundaryReader, called by its user.            *)
(***************************************************************************)
Read(n) ==
    /\ ~mbr.panic
    /\ \E r \in {read(mbr, n)} :
          /\ mbr' = r.s
          /\ cur' = cur \o r.out
          /\ reads' = IF r.n = 0 THEN reads ELSE Min(reads + 1, 2)
    /\ UNCHANGED <<input, first, entry, handles, skipped, done, lost, epoch, faults>>

FillBuf ==
    /\ ~mbr.panic
    /\ mbr' = fill_buf(mbr).s
    /\ UNCHANGED <<input, first, entry, handles, cur, skipped, done, lost, epoch, faults, reads>>

Consume(amt) ==
    /\ ~mbr.panic
    /\ amt >= 1
    /\ amt <= mbr.ready_end - mbr.ready_start
    /\ mbr' = consume(mbr, amt)
    /\ cur' = cur \o SubSeq(available_origin(mbr), 1, amt)
    /\ reads' = 2
    /\ UNCHANGED <<input, first, entry, handles, skipped, done, lost, epoch, faults>>

Eof ==
    /\ ~mbr.panic
    /\ mbr' = eof(mbr).s
    /\ UNCHANGED <<input, first, entry, handles, cur, skipped, done, lost, epoch, faults, reads>>

\* The observers when reset_eom begins a message.
BeginMessage ==
    /\ epoch' = epoch + 1
    /\ cur' = <<>>
    /\ reads' = 0
    /\ skipped' = FALSE

ResetEom ==
    /\ ~mbr.panic
    /\ eom(mbr)
    /\ mbr' = reset_eom(mbr)
    /\ BeginMessage
    /\ UNCHANGED <<input, first, entry, handles, done, lost, faults>>

SkipMessage ==
    /\ ~mbr.panic
    /\ \E r \in {skip_message(mbr)} :
          /\ mbr' = r.s
          /\ skipped' = (skipped \/ r.n > 0)
    /\ UNCHANGED <<input, first, entry, handles, cur, done, lost, epoch, faults, reads>>

(***************************************************************************)
(* The operations of MboxReader and of the MboxEntry it returned.          *)
(***************************************************************************)
NextCall ==
    /\ ~mbr.panic
    /\ \E r \in {next(mbr, first)} :
          /\ mbr' = r.s
          /\ first' = r.first
          /\ entry' = r.ret
          /\ handles' = IF r.ret = "some" THEN handles + 1 ELSE handles
          /\ IF r.began
             THEN /\ BeginMessage
                  /\ lost' = (lost \/ skipped \/ r.n > 0)
                  /\ done' = IF lost' THEN <<>> ELSE done \o cur
             ELSE /\ skipped' = (skipped \/ r.n > 0)
                  /\ UNCHANGED <<cur, done, lost, epoch, reads>>
    /\ UNCHANGED <<input, faults>>

EntryRead(n) == entry = "some" /\ Read(n)

EntryFillBuf == entry = "some" /\ FillBuf

EntryConsume(amt) == entry = "some" /\ Consume(amt)

(***************************************************************************)
(* The source: its read at stream position off fails once. The source is   *)
(* read only by a refill, which reads it from inner.pos until the buffer   *)
(* is full, so the failing read is chosen when the next fill_buf refills   *)
(* and among the positions that refill reads at.                           *)
(***************************************************************************)
InjectFault(off) ==
    /\ ~mbr.panic
    /\ faults < MaxFaults
    /\ mbr.inner.fault = None
    /\ mbr.ready_start = mbr.ready_end
    /\ mbr.ready_end = mbr.held_back
    /\ mbr.next_message_start = None
    /\ off >= mbr.inner.pos
    /\ off <= Len(input)
    /\ off < mbr.inner.pos + Capacity - (mbr.buffer_end - mbr.held_back)
    /\ mbr' = [mbr EXCEPT !.inner.fault = off]
    /\ faults' = faults + 1
    /\ UNCHANGED <<input, first, entry, handles, cur, skipped, done, lost, epoch, reads>>

ConsumeAmounts == {1, mbr.ready_end - mbr.ready_start}

Next ==
    \/ \E n \in ReadSizes : Read(n)
    \/ FillBuf
    \/ \E amt \in ConsumeAmounts : Consume(amt)
    \/ Eof
    \/ ResetEom
    \/ SkipMessage

Spec == Init /\ [][Next]_vars

MboxNext ==
    \/ NextCall
    \/ \E n \in ReadSizes : EntryRead(n)
    \/ EntryFillBuf
    \/ \E amt \in ConsumeAmounts : EntryConsume(amt)

MboxSpec == Init /\ [][MboxNext]_vars

ErrNext ==
    \/ Next
    \/ \E off \in 0..BigRead : InjectFault(off)

ErrSpec == Init /\ [][ErrNext]_vars

(***************************************************************************)
(* The caller of MboxReader goes on calling next (the loop of              *)
(* test::mbox_reader): a call that would change the state is not put off   *)
(* for ever. The inputs are text that is empty or ends three bytes before  *)
(* the end of the first full buffer, then up to MaxLiveTokens tokens.      *)
(***************************************************************************)
LiveInputs == {Pad(k) \o b : k \in {0, Capacity - 3}, b \in Bodies(MaxLiveTokens)}

LiveInit == InitOn(LiveInputs)

MboxLive == LiveInit /\ [][MboxNext]_vars /\ WF_vars(NextCall)


(***************************************************************************)
(* What the input says, independently of the reader: where its messages    *)
(* begin and end. Positions in the input are 1-based.                      *)
(***************************************************************************)
Range(seq) == {seq[i] : i \in 1..Len(seq)}

IsPrefix(p, seq) == Len(p) <= Len(seq) /\ p = SubSeq(seq, 1, Len(p))

\* The positions from a to b, in order.
Span(a, b) == [i \in 1..(b - a + 1) |-> a + i - 1]

\* The magic word starts at position i: i is the position of its newline.
IsMarkerAt(i) ==
    /\ i + 5 <= Len(input)
    /\ SubSeq(input, i, i + 5) = <<10, 70, 114, 111, 109, 32>>

Markers == {i \in 1..Len(input) : IsMarkerAt(i)}

\* The last position of the k-th message: the newline of the k-th marker, or the
\* end of the input.
MsgEnd(k) ==
    IF k = 0 THEN 0
    ELSE IF k > Cardinality(Markers) THEN Len(input)
    ELSE CHOOSE i \in Markers : Cardinality({j \in Markers : j <= i}) = k

MsgStart(k) == MsgEnd(k - 1) + 1

Message(k) == Span(MsgStart(k), MsgEnd(k))

NumMessages == IF Len(input) = 0 THEN 0 ELSE Cardinality(Markers) + 1

\* An escaped line starts after the newline at position i: n '>' and "From ".
IsEscapeAt(i, n) ==
    /\ n >= 1
    /\ i + n + 5 <= Len(input)
    /\ input[i] = 10
    /\ \A j \in 1..n : input[i + j] = 62
    /\ SubSeq(input, i + n + 1, i + n + 5) = <<70, 114, 111, 109, 32>>

Escapes ==
    UNION {{<<i, n>> : n \in {m \in 1..(Len(input) - i - 5) : IsEscapeAt(i, m)}}
           : i \in {j \in 1..Len(input) : input[j] = 10}}

\* The bytes at the positions of seq.
Bytes(seq) == [i \in 1..Len(seq) |-> input[seq[i]]]

\* What the caller can see of the current message: the bytes it took and the
\* slice fill_buf exposes.
Visible == Range(cur) \cup Range(available_origin(mbr))

(***************************************************************************)
(* C1: no cross-message leakage. Between two reset_eom calls the caller    *)
(* sees no byte located after the newline of a magic word it has seen:     *)
(* whenever a visible byte is the newline of a marker of the input, no     *)
(* visible byte lies after it, whatever the sizes of the reads.            *)
(***************************************************************************)
C1_NoLeak ==
    \A a \in Visible : IsMarkerAt(a) => \A b \in Visible : b <= a

\* One read into a destination larger than the whole input stopped at the newline
\* of a marker, with input left after it.
C1_Witness ==
    /\ reads = 1
    /\ Len(cur) > 2
    /\ IsMarkerAt(cur[Len(cur)])
    /\ eom(mbr)
    /\ BigRead > Len(input)

(***************************************************************************)
(* C2: boundary precision. For an input with no escaped line, the bytes    *)
(* read in a message are the input's bytes from the message's start in     *)
(* order; read returns 0 exactly when the newline of the next marker (or   *)
(* the last byte of the input) has been taken; eom() holds exactly when    *)
(* that newline has been taken, with no further read; a message after      *)
(* reset_eom starts at the 'F' after the marker's newline; and at the end  *)
(* of the source eof() is true and eom() false.                            *)
(***************************************************************************)
C2_BoundaryPrecision ==
    (~skipped /\ Escapes = {}) =>
        \E k \in {epoch + 1} : \E msg \in {Message(epoch + 1)} :
        \E complete \in {cur = msg} :
           /\ k <= NumMessages \/ (k = 1 /\ Len(input) = 0)
           /\ IsPrefix(cur, msg)
           /\ (read(mbr, 1).n = 0) <=> complete
           /\ eom(mbr) <=> (complete /\ k <= Cardinality(Markers))
           /\ (k > 1 /\ cur # <<>>) => input[cur[1]] = 70
           /\ (complete /\ k > Cardinality(Markers)) => (eof(mbr).val /\ ~eom(mbr))

\* The second message of an input without escaped line has been read to the end
\* of the source.
C2_Witness ==
    /\ Escapes = {}
    /\ ~skipped
    /\ epoch = 1
    /\ cur = Message(2)
    /\ Len(cur) > 5
    /\ Cardinality(Markers) = 1
    /\ eof(mbr).val

(***************************************************************************)
(* C3: split-marker robustness. For an input made of text that ends 0..6   *)
(* bytes before the end of the first full buffer, the magic word, and a    *)
(* rest without newline (test::page_boundary), the first message is the    *)
(* text and the marker's newline, the second message is "From " and the    *)
(* rest, and eom() and eof() hold exactly at their ends, for every read    *)
(* size.                                                                   *)
(***************************************************************************)
PageBoundaryOffset ==
    {offset \in 0..6 :
        /\ Len(input) >= Capacity - offset + 6
        /\ SubSeq(input, 1, Capacity - offset) = Pad(Capacity - offset)
        /\ IsMarkerAt(Capacity - offset + 1)
        /\ \A i \in (Capacity - offset + 2)..Len(input) : input[i] # 10}

C3_SplitMarker ==
    \A offset \in PageBoundaryOffset :
        ~skipped =>
            LET text == Capacity - offset
                rest == SubSeq(input, text + 2, Len(input))
            IN /\ epoch <= 1
               /\ epoch = 0 =>
                    /\ IsPrefix(Bytes(cur), Pad(text) \o <<10>>)
                    /\ eom(mbr) <=> (Len(cur) = text + 1)
                    /\ Len(cur) = text + 1 => read(mbr, BigRead).n = 0
               /\ epoch = 1 =>
                    /\ IsPrefix(Bytes(cur), rest)
                    /\ SubSeq(rest, 1, 5) = <<70, 114, 111, 109, 32>>
                    /\ eof(mbr).val <=> (Len(cur) = Len(rest))
                    /\ ~eom(mbr)
               /\ \A i \in 1..Len(cur) : cur[i] = (IF epoch = 0 THEN 0 ELSE text + 1) + i

\* The magic word straddled the end of the first full buffer and both messages
\* were read in full.
C3_Witness ==
    /\ \E offset \in 1..5 : offset \in PageBoundaryOffset
    /\ ~skipped
    /\ epoch = 1
    /\ Len(input) > Capacity
    /\ cur = Message(2)
    /\ eof(mbr).val


\* The escaped line after the newline at e[1], with e[2] '>', has been delivered
\* as far as the 'F' of its "From ".
EscapeDelivered(e) == (e[1] + e[2] + 1) \in Range(cur)

\* The number of '>' of that escaped line that were delivered.
EscapeKept(e) == Cardinality({j \in (e[1] + 1)..(e[1] + e[2]) : j \in Range(cur)})

(***************************************************************************)
(* C4: escape removal for every escaped line. Every line that begins,      *)
(* after a newline, with one or more '>' and "From " is delivered with     *)
(* exactly one '>' removed; stated for the inputs that fit in one buffer,  *)
(* so that the whole message lies in one buffered window.                  *)
(***************************************************************************)
C4_EveryEscapedLine ==
    Len(input) <= Capacity =>
        \A e \in Escapes : EscapeDelivered(e) => EscapeKept(e) = e[2] - 1

(***************************************************************************)
(* C5: escape removal across refills and nesting depth. An escaped line    *)
(* with n '>' is delivered with n - 1 of them at every position relative   *)
(* to the end of a full buffer; stated for the inputs whose only line      *)
(* beginning with '>' is one escaped line, so that no other line of the    *)
(* window is involved.                                                     *)
(***************************************************************************)
QuotedLines == {i \in 1..(Len(input) - 1) : input[i] = 10 /\ input[i + 1] = 62}

C5_EscapeAcrossRefill ==
    Cardinality(QuotedLines) = 1 =>
        \A e \in Escapes : EscapeDelivered(e) => EscapeKept(e) = e[2] - 1


(***************************************************************************)
(* C6: record sequencing. The k-th MboxEntry that MboxReader::next returns *)
(* is positioned at the first byte of the k-th message of the input (the   *)
(* first at position 1, a later one at the 'F' after the (k-1)-th marker), *)
(* whether the caller read none, some or all of the earlier entries, and   *)
(* next returns None only when it has returned an entry for every message  *)
(* of the input.                                                           *)
(***************************************************************************)
\* The position in the input of the next byte a read of the entry delivers
\* (0: none).
EntryPosition ==
    IF cur # <<>> THEN cur[1]
    ELSE The({IF r.n = 0 THEN 0 ELSE r.out[1] : r \in {read(mbr, 1)}})

C6_RecordSequencing ==
    /\ entry \in {"init", "some", "none"}
    /\ entry = "init" => handles = 0
    /\ entry = "some" =>
        /\ handles >= 1
        /\ handles <= NumMessages
        /\ handles = epoch + 1
        /\ ~skipped => EntryPosition = MsgStart(handles)
        /\ handles > 1 => IsMarkerAt(MsgStart(handles) - 1)
    /\ entry = "none" => handles = NumMessages

\* next returned the third entry after the caller left an earlier one partly
\* read, and nothing of the third has been read.
C6_Witness ==
    /\ entry = "some"
    /\ handles = 3
    /\ lost
    /\ cur = <<>>
    /\ EntryPosition = MsgStart(3)

(***************************************************************************)
(* C8: byte conservation. When next has returned None and every entry was  *)
(* read to its end, the bytes of all entries in order are the bytes of the *)
(* input in order without the '>' that fill_buf erased, so their number is *)
(* the length of the input minus the number of erased bytes.               *)
(***************************************************************************)
RECURSIVE Without(_, _, _)
\* The positions from..to that are not in gone, in order.
Without(from, to, gone) ==
    IF from > to THEN <<>>
    ELSE (IF from \in gone THEN <<>> ELSE <<from>>) \o Without(from + 1, to, gone)

C8_ByteConservation ==
    (entry = "none" /\ ~lost /\ ~skipped) =>
        /\ done \o cur = Without(1, Len(input), mbr.removed)
        /\ Len(done) + Len(cur) = Len(input) - Cardinality(mbr.removed)
        /\ \A i \in mbr.removed : input[i] = 62

\* Two records were read to their ends, one '>' was erased, and next returned None.
C8_Witness ==
    /\ entry = "none"
    /\ ~lost
    /\ ~skipped
    /\ handles >= 2
    /\ Cardinality(mbr.removed) >= 1
    /\ Len(done) + Len(cur) = Len(input) - 1


(***************************************************************************)
(* The messages of the input as the reader delivers them when each is read *)
(* by reads into a destination larger than the input and no source read    *)
(* fails: a sequence of sequences of input positions.                      *)
(***************************************************************************)
RECURSIVE drain(_, _, _)
drain(s, msgs, acc) ==
    The({IF r.err \/ r.s.panic THEN msgs \o <<acc>>
         ELSE IF r.n > 0 THEN drain(r.s, msgs, acc \o r.out)
         ELSE IF eom(r.s) THEN drain(reset_eom(r.s), msgs \o <<acc>>, <<>>)
         ELSE msgs \o <<acc>>
         : r \in {read(s, BigRead)}})

Reference == drain(new, <<>>, <<>>)

(***************************************************************************)
(* C7: retry after a failed source read. When reads of the source fail and *)
(* the caller retries, the reader delivers the same bytes and detects the  *)
(* same boundaries as when no read fails: the bytes taken in a message are *)
(* a prefix of that message as delivered without failure, and eom() holds  *)
(* only at its end.                                                        *)
(***************************************************************************)
C7_RetrySameAsNoFailure ==
    ~skipped =>
        LET ref == Reference
        IN /\ epoch + 1 <= Len(ref)
           /\ IsPrefix(cur, ref[epoch + 1])
           /\ eom(mbr) => cur = ref[epoch + 1]

(***************************************************************************)
(* C9: end-of-stream convergence. When the caller goes on calling          *)
(* MboxReader::next, reading each entry in full, in part or not at all,    *)
(* next returns None after finitely many calls and every later call        *)
(* returns None again.                                                     *)
(***************************************************************************)
C9_Converges == <>[](entry = "none")

\* next returned None after three entries, one of which was left partly read.
C9_Witness ==
    /\ entry = "none"
    /\ handles = 3
    /\ Len(input) > Capacity
    /\ lost

(***************************************************************************)
(* C10: chunk-size independence. Whatever the sizes of the reads (1, 2,    *)
(* larger than the input, or consume after fill_buf), the bytes read in a  *)
(* message are a prefix of the bytes that reads larger than the input      *)
(* deliver for that message, read returns 0 exactly when all of them have  *)
(* been read, and eom() holds exactly then if another message follows.     *)
(***************************************************************************)
C10_ChunkIndependence ==
    ~skipped =>
        \E ref \in {Reference} : \E k \in {epoch + 1} :
           /\ k <= Len(ref)
           /\ IsPrefix(cur, ref[k])
           /\ (read(mbr, 1).n = 0) <=> (cur = ref[k])
           /\ (read(mbr, 2).n = 0) <=> (cur = ref[k])
           /\ eom(mbr) <=> (cur = ref[k] /\ k < Len(ref))

\* A second message with an erased '>' was read to its end in several reads.
C10_Witness ==
    /\ ~skipped
    /\ epoch >= 1
    /\ reads = 2
    /\ Len(cur) > 5
    /\ cur = Reference[epoch + 1]
    /\ mbr.removed # {}

(***************************************************************************)
(* C11: read returns 0 exactly at end-of-message or at the end of the      *)
(* source. In every state, a read into a destination of one byte or more   *)
(* returns 0 if and only if eom() holds, or the source has no byte left    *)
(* and the buffer holds no byte that was not consumed, ready or held back. *)
(***************************************************************************)
Exhausted(s) == s.inner.pos = Len(input) /\ s.ready_start = s.buffer_end

C11_ReadZeroIff ==
    ~mbr.panic =>
        \A n \in ReadSizes :
            (read(mbr, n).n = 0) <=> (eom(mbr) \/ Exhausted(mbr))

\* After a first message that ended at eom, the second message was read to the
\* end of an input longer than the buffer, where read returns 0 and eom() is
\* false.
C11_Witness ==
    /\ epoch = 1
    /\ cur # <<>>
    /\ ~eom(mbr)
    /\ Len(input) > Capacity
    /\ read(mbr, 1).n = 0

(***************************************************************************)
(* C12: end-of-message is cleared only by reset_eom. In a state where      *)
(* eom() holds, read and fill_buf return 0 bytes, eof returns false, and   *)
(* read, fill_buf, eof and skip_message leave the reader as it is; a step  *)
(* from such a state either keeps eom() or is reset_eom, and after         *)
(* reset_eom eom() is false.                                               *)
(***************************************************************************)
C12_EomUntilReset ==
    [][eom(mbr) =>
          /\ \A n \in ReadSizes : read(mbr, n) = [s |-> mbr, err |-> FALSE, n |-> 0, out |-> <<>>]
          /\ fill_buf(mbr) = Ok(mbr)
          /\ available(mbr) = <<>>
          /\ eof(mbr) = [s |-> mbr, err |-> FALSE, val |-> FALSE]
          /\ skip_message(mbr) = [s |-> mbr, err |-> FALSE, n |-> 0]
          /\ eom(mbr') \/ epoch' = epoch + 1
          /\ epoch' = epoch + 1 => ~eom(mbr')]_vars

\* eom() holds at the end of a second message: reset_eom cleared the first
\* end-of-message and the reads after it reached the next one.
C12_Witness ==
    /\ eom(mbr)
    /\ epoch = 1
    /\ cur # <<>>
    /\ reads = 2

(***************************************************************************)
(* C13: eof() returns true if and only if eom() is false, the source has   *)
(* no byte left and the buffer holds no byte that was not consumed, ready  *)
(* or held back; and the messages read after a call of eof are the ones    *)
(* read without it.                                                        *)
(***************************************************************************)
Rest(s) == drain(s, <<>>, <<>>)

C13_EofIff ==
    ~mbr.panic =>
        \E e \in {eof(mbr)} :
            /\ e.val <=> (~eom(mbr) /\ Exhausted(mbr))
            /\ e.s = mbr \/ Rest(e.s) = Rest(mbr)

\* All the ready bytes are consumed and bytes are held back at the end of the
\* source: eof() is false, and its fill_buf moves the held back bytes.
C13_Witness ==
    /\ mbr.ready_start = mbr.held_back
    /\ mbr.held_back < mbr.buffer_end
    /\ mbr.inner.pos = Len(input)
    /\ mbr.next_message_start = None
    /\ cur # <<>>
    /\ ~eof(mbr).val
    /\ eof(mbr).s # mbr

(***************************************************************************)
(* C14: skip_message stops at the boundary. From every state, after        *)
(* skip_message returned Ok, eom() is true or eof() is true, nothing is    *)
(* left to read of the current message, and the messages after it are read *)
(* as they are without the skip. When it ends at eom, the message read     *)
(* after reset_eom starts at the 'F' after the newline of a marker and     *)
(* runs, with no byte missing but erased '>', to the newline of the next   *)
(* marker or to the end of the input.                                      *)
(***************************************************************************)
InFull(m) ==
    /\ m # <<>>
    /\ IsMarkerAt(m[1] - 1)
    /\ \A i \in 1..(Len(m) - 1) : m[i] < m[i + 1] /\ ~IsMarkerAt(m[i])
    /\ \A q \in m[1]..m[Len(m)] : q \in Range(m) \/ input[q] = GT
    /\ m[Len(m)] = Len(input) \/ IsMarkerAt(m[Len(m)])

C14_SkipStopsAtBoundary ==
    ~mbr.panic =>
        \E sk \in {skip_message(mbr)} :
            /\ ~sk.err
            /\ ~sk.s.panic
            /\ eom(sk.s) \/ eof(sk.s).val
            /\ \E after \in {Rest(sk.s)} :
                   /\ Head(after) = <<>>
                   /\ Tail(after) = Tail(Rest(mbr))
                   /\ eom(sk.s) => Len(after) >= 2 /\ InFull(after[2])

\* skip_message discarded the rest of a partly read message, over a refill, and
\* stopped at eom with a message left to read.
C14_Witness ==
    /\ skipped
    /\ cur # <<>>
    /\ eom(mbr)
    /\ Len(input) > Capacity
    /\ mbr.inner.pos > Capacity
    /\ Len(Rest(mbr)) >= 2

(***************************************************************************)
(* C15: the buffer window invariant. In every reachable state, failed      *)
(* source reads included, 0 <= ready_start <= ready_end <= held_back <=    *)
(* buffer_end <= capacity, and the buffer has the length of the capacity.  *)
(***************************************************************************)
C15_WindowInvariant ==
    /\ 0 <= mbr.ready_start
    /\ mbr.ready_start <= mbr.ready_end
    /\ mbr.ready_end <= mbr.held_back
    /\ mbr.held_back <= mbr.buffer_end
    /\ mbr.buffer_end <= Capacity
    /\ Len(mbr.buffer) = Capacity

\* A source read failed after the refill had carried held back bytes over, in
\* an input where fill_buf erased a '>'.
C15_Witness ==
    /\ faults = 1
    /\ mbr.inner.fault = None
    /\ mbr.ready_end = 0
    /\ mbr.buffer_end > 0
    /\ mbr.removed # {}

(***************************************************************************)
(* C16: escape removal touches nothing else. Every byte fill_buf erased is *)
(* a '>' of the input that directly follows a newline and is followed by   *)
(* zero or more '>' and "From "; the ready bytes and the bytes taken are   *)
(* bytes of the input, unaltered and in the order of the input; and, when  *)
(* nothing was skipped, the only bytes missing between them are erased     *)
(* ones.                                                                   *)
(***************************************************************************)
Delivered == cur \o available_origin(mbr)

C16_OnlyEscapesRemoved ==
    /\ \A r \in mbr.removed :
          /\ input[r] = GT
          /\ r > 1
          /\ \E n \in 1..Len(input) : IsEscapeAt(r - 1, n)
    /\ available(mbr) = Bytes(available_origin(mbr))
    /\ \A i \in 1..(Len(Delivered) - 1) : Delivered[i] < Delivered[i + 1]
    /\ (~skipped /\ Delivered # <<>>) =>
          \A q \in Delivered[1]..Delivered[Len(Delivered)] :
              q \in Range(Delivered) \/ q \in mbr.removed

\* The first '>' of a line ">>From " was erased, and the bytes before and after
\* it were taken.
C16_Witness ==
    \E r \in mbr.removed :
        /\ IsEscapeAt(r - 1, 2)
        /\ r - 1 \in Range(cur)
        /\ r + 1 \in Range(cur)
        /\ r + 2 \in Range(cur)

(***************************************************************************)
(* C17: the held back region. In every reachable state, failed source      *)
(* reads included, buffer[held_back..buffer_end] has at most five bytes;   *)
(* when it is not empty, six bytes or more are in the buffer, it begins    *)
(* with a newline, and no newline lies before it among the last five bytes *)
(* of the buffer; with fewer than six bytes in the buffer nothing is held  *)
(* back.                                                                   *)
(***************************************************************************)
C17_HeldBackRegion ==
    /\ mbr.buffer_end - mbr.held_back <= 5
    /\ mbr.held_back < mbr.buffer_end =>
          /\ mbr.buffer_end >= Len(MAGIC_WORD)
          /\ mbr.buffer[mbr.held_back + 1] = NL
          /\ \A i \in (mbr.buffer_end - 5 + 1)..mbr.held_back : mbr.buffer[i] # NL
    /\ mbr.buffer_end < Len(MAGIC_WORD) => mbr.held_back = mbr.buffer_end

\* Two newlines are among the last five bytes of a full buffer: the bytes from
\* the first of them on are held back.
C17_Witness ==
    /\ mbr.buffer_end = Capacity
    /\ mbr.held_back < mbr.buffer_end
    /\ \E i \in (mbr.held_back + 2)..mbr.buffer_end : mbr.buffer[i] = NL
    /\ mbr.ready_end = mbr.held_back

(***************************************************************************)
(* C18: the source is read only when the ready window is empty, no         *)
(* boundary is pending and every scanned byte has been consumed. No refill *)
(* of any fill_buf, called by the user or inside read, eof or              *)
(* skip_message, began in another state; and in another state fill_buf,    *)
(* read and eof leave the source where it is.                              *)
(***************************************************************************)
C18_SourceReadOnlyWhenEmpty ==
    /\ ~mbr.early_read
    /\ (~mbr.panic /\ ~AllConsumed(mbr)) =>
          /\ fill_buf(mbr).s.inner = mbr.inner
          /\ eof(mbr).s.inner = mbr.inner
          /\ \A n \in ReadSizes : read(mbr, n).s.inner = mbr.inner

\* After reset_eom the buffer holds scanned bytes of the next message that were
\* not delivered, the source has bytes left, and fill_buf does not read it.
C18_Witness ==
    /\ epoch = 1
    /\ mbr.next_message_start = None
    /\ mbr.ready_start = mbr.ready_end
    /\ mbr.ready_end < mbr.held_back
    /\ mbr.inner.pos < Len(input)
    /\ fill_buf(mbr).s.inner = mbr.inner
    /\ available(fill_buf(mbr).s) # <<>>

(***************************************************************************)
(* C19: no assertion can fail through the public interface. Whatever the   *)
(* calls of MboxReader::next and of read, fill_buf and consume on the      *)
(* entry it returned (consume with an amount fill_buf made available), no  *)
(* assertion of next, reset_eom, fill_buf or consume has failed, next has  *)
(* not returned an error, and whenever next_message_start is set it equals *)
(* ready_end.                                                              *)
(***************************************************************************)
C19_NoAssertionFails ==
    /\ ~mbr.panic
    /\ entry # "err"
    /\ mbr.next_message_start # None => mbr.next_message_start = mbr.ready_end

\* next skipped over the rest of a partly read entry, passed its assertion and
\* called reset_eom, and the boundary of a further message is pending.
C19_Witness ==
    /\ entry = "some"
    /\ lost
    /\ handles >= 2
    /\ mbr.next_message_start # None
    /\ mbr.ready_start < mbr.ready_end

(***************************************************************************)
(* C20, as stated: over any sequence of operations ready_start never       *)
(* decreases.                                                              *)
(***************************************************************************)
C20_NeverDecreases == [][mbr'.ready_start >= mbr.ready_start]_vars

(***************************************************************************)
(* C20, amended: ready_start changes only when bytes are consumed, which   *)
(* adds the amount to it, and when a refill restarts the window, which     *)
(* sets it to 0. In every reachable state, failed source reads included:   *)
(* consume adds its amount; reset_eom leaves it; fill_buf sets it to 0     *)
(* when the ready window is empty, no boundary is pending and every        *)
(* scanned byte has been consumed, and leaves it otherwise; read is        *)
(* fill_buf followed by the consume of the bytes copied; eof leaves it or  *)
(* is fill_buf; skip_message decreases it only when it began in a state    *)
(* where fill_buf refills or discarded bytes before a refill.              *)
(***************************************************************************)
AfterFill(s) == IF AllConsumed(s) THEN 0 ELSE s.ready_start

C20_ChangesOnlyInConsumeAndRefill ==
    ~mbr.panic =>
        /\ \A amt \in 0..(mbr.ready_end - mbr.ready_start) :
              consume(mbr, amt).ready_start = mbr.ready_start + amt
        /\ eom(mbr) => reset_eom(mbr).ready_start = mbr.ready_start
        /\ fill_buf(mbr).s.ready_start = AfterFill(mbr)
        /\ \A n \in ReadSizes :
              \E r \in {read(mbr, n)} : r.s.ready_start = AfterFill(mbr) + r.n
        /\ eof(mbr).s.ready_start = IF eom(mbr) THEN mbr.ready_start ELSE AfterFill(mbr)
        /\ \E sk \in {skip_message(mbr)} :
              \/ sk.s.ready_start >= mbr.ready_start
              \/ AllConsumed(mbr)
              \/ sk.n > 0

\* A refill set ready_start back to 0 after the caller had consumed the first
\* window of an input longer than the buffer.
C20_Witness ==
    /\ mbr.ready_start = 0
    /\ mbr.ready_end > 0
    /\ mbr.inner.pos > Capacity
    /\ cur # <<>>
    /\ mbr.origin[1] > Capacity - 5

====
